---- MODULE Spec2Model ----
(***************************************************************************)
(* treqs: an http.Handler (Tracer) that enables the runtime tracer for a   *)
(* single request.  The model follows src/cmd/treqs/main.go: the header    *)
(* scrub, the dispatch of ServeHTTP, the four actions (pass-through, read, *)
(* reset, trace), Exclude, the sync.RWMutex and the process-wide           *)
(* runtime/trace facility.                                                 *)
(*                                                                         *)
(* Strings that the code inspects (header values, ids) are sequences of    *)
(* one-character strings, so that strings.ToLower and hex encoding are     *)
(* computed and not assumed.                                               *)
(***************************************************************************)
EXTENDS Naturals, Integers, Sequences, FiniteSets, TLC

VARIABLES
    tKey,      \* Tracer.Key
    mu,        \* Tracer.mu: [w: the writer holding or waiting for readers, readers: set of holders]
    traces,    \* Tracer.traces: [nil: BOOLEAN, m: id -> bytes]
    tracing,   \* runtime/trace: the request whose buffer is the sink, or None
    pc,        \* position of each request goroutine
    hdr,       \* r.Header of each request in flight, as the code has left it
    orig,      \* the headers the client sent with the request in flight
    act,       \* the lowered action ServeHTTP dispatched on
    rid,       \* the id read() is called with
    tid,       \* the id trace() generated
    buf,       \* the bytes.Buffer of trace()
    resp,      \* the http.ResponseWriter: status, id header, content type, body
    called,    \* whether t.Handler.ServeHTTP was invoked for the request
    bpc,       \* position of each goroutine calling Exclude
    nextId,    \* the number of ids drawn from crypto/rand so far
    crashed,   \* the runtime threw a fatal error (concurrent map access)
    purged     \* history: the ids that a reset discarded

vars == <<tKey, mu, traces, tracing, pc, hdr, orig, act, rid, tid, buf,
          resp, called, bpc, nextId, crashed, purged>>

----------------------------------------------------------------------------
(* Bounds *)

NumSlots == 2        \* request goroutines that can be in flight at once
NumBg == 1           \* goroutines that call Exclude in a loop
MaxIds == 2          \* trace requests served in one behaviour

Reqs == 1..NumSlots
Bgs == (NumSlots + 1)..(NumSlots + NumBg)
None == 0

----------------------------------------------------------------------------
(* Strings *)

xTReqsAction == "X-Treqs-Action"
xTReqsID == "X-Treqs-Id"
xTReqsKey == "X-Treqs-Key"

sEmpty == << >>
sTreqs == <<"t", "r", "e", "q", "s">>
sBad == <<"b", "a", "d">>
sTrace == <<"t", "r", "a", "c", "e">>
sTraceMixed == <<"T", "r", "A", "c", "E">>
sTracee == <<"t", "r", "a", "c", "e", "e">>
sRead == <<"r", "e", "a", "d">>
sReadUpper == <<"R", "E", "A", "D">>
sReset == <<"r", "e", "s", "e", "t">>
sAny == <<"*">>

UpperToLower ==
    [A |-> "a", B |-> "b", C |-> "c", D |-> "d", E |-> "e", F |-> "f", G |-> "g",
     H |-> "h", I |-> "i", J |-> "j", K |-> "k", L |-> "l", M |-> "m", N |-> "n",
     O |-> "o", P |-> "p", Q |-> "q", R |-> "r", S |-> "s", T |-> "t", U |-> "u",
     V |-> "v", W |-> "w", X |-> "x", Y |-> "y", Z |-> "z"]

\* A variant that compares the action as it was sent
ToLowerNone(s) == s

\* strings.ToLower
ToLower(s) ==
    [i \in 1..Len(s) |-> IF s[i] \in DOMAIN UpperToLower THEN UpperToLower[s[i]] ELSE s[i]]

HexDigits == <<"0", "1", "2", "3", "4", "5", "6", "7", "8", "9",
               "a", "b", "c", "d", "e", "f">>

\* hex.EncodeToString of one byte
EncodeToString(b) == <<HexDigits[(b \div 16) + 1], HexDigits[(b % 16) + 1]>>

\* randHex: the n-th draw from crypto/rand; draws do not repeat
randHex(n) == EncodeToString(n % 256)

----------------------------------------------------------------------------
(* http.Header: a map from header name to a list of values *)

EmptyHeader == [n \in {} |-> << >>]

\* textproto.CanonicalMIMEHeaderKey on the names the model uses
CanonicalHeaderKey(n) ==
    CASE n = "x-treqs-key" -> xTReqsKey
      [] n = "x-treqs-action" -> xTReqsAction
      [] n = "x-treqs-id" -> xTReqsID
      [] OTHER -> n

\* http.Header.Get: the first value under the canonical form of the name, or ""
Get(h, n) ==
    LET c == CanonicalHeaderKey(n)
    IN IF c \in DOMAIN h /\ Len(h[c]) > 0 THEN h[c][1] ELSE sEmpty

\* delete(hdr, k)
Delete(h, k) == [n \in DOMAIN h \ {k} |-> h[n]]

\* A variant of the loop body that deletes only the keys outside the switch
ScrubBroken(s, k) ==
    [hdr |-> IF k \in {xTReqsKey, xTReqsAction, xTReqsID} THEN s.hdr ELSE Delete(s.hdr, k),
     key |-> IF k = xTReqsKey /\ s.key = sEmpty THEN Get(s.hdr, k) ELSE s.key,
     action |-> IF k = xTReqsAction /\ s.action = sEmpty THEN Get(s.hdr, k) ELSE s.action,
     id |-> IF k = xTReqsID /\ s.id = sEmpty THEN Get(s.hdr, k) ELSE s.id]

\* One iteration of the loop of scrubHeader on the map key k, with
\* s = [hdr, key, action, id]: the switch, then delete(hdr, k)
ScrubStep(s, k) ==
    [hdr |-> Delete(s.hdr, k),
     key |-> IF k = xTReqsKey /\ s.key = sEmpty THEN Get(s.hdr, k) ELSE s.key,
     action |-> IF k = xTReqsAction /\ s.action = sEmpty THEN Get(s.hdr, k) ELSE s.action,
     id |-> IF k = xTReqsID /\ s.id = sEmpty THEN Get(s.hdr, k) ELSE s.id]

RECURSIVE ScrubLoop(_, _)
ScrubLoop(s, order) ==
    IF order = << >> THEN s
    ELSE ScrubLoop(ScrubStep(s, Head(order)), Tail(order))

\* scrubHeader: `order` is the order in which range yields the keys of the map
scrubHeader(h, order) ==
    ScrubLoop([hdr |-> h, key |-> sEmpty, action |-> sEmpty, id |-> sEmpty], order)

\* The orders in which range can yield the keys of h
RECURSIVE Orders(_)
Orders(S) ==
    IF S = {} THEN {<< >>}
    ELSE UNION {{<<k>> \o o : o \in Orders(S \ {k})} : k \in S}

----------------------------------------------------------------------------
(* Requests *)

Part(name, vals) == IF vals = << >> THEN EmptyHeader ELSE (name :> vals)

MkHeader(k, a, i, x) ==
    Part(xTReqsKey, k) @@ Part(xTReqsAction, a) @@ Part(xTReqsID, i) @@ x

\* The ids a client asks to read: the ids that trace requests can be given
ReadIds == {randHex(n) : n \in 0..(MaxIds - 1)}

\* The requests of concurrent clients: trace, reset, an unauthorized trace
\* (pass-through), and reads
ConcHeaders ==
    {MkHeader(<<sTreqs>>, <<sTrace>>, << >>, EmptyHeader),
     MkHeader(<<sTreqs>>, <<sReset>>, << >>, EmptyHeader),
     MkHeader(<<sBad>>, <<sTrace>>, << >>, EmptyHeader)}
    \cup {MkHeader(<<sTreqs>>, <<sRead>>, <<i>>, EmptyHeader) : i \in ReadIds}

\* The requests of a single client: combinations of the control headers, with
\* repeated values, another header, and a key under a name that is not canonical
KeyValues == {<< >>, <<sTreqs>>, <<sBad>>, <<sBad, sTreqs>>}
ActionValues == {<< >>, <<sTraceMixed>>, <<sTracee>>, <<sReadUpper>>, <<sReset, sTrace>>}
IdValues == {<< >>, <<randHex(0)>>}
OtherValues == {EmptyHeader, "Accept" :> <<sAny, sBad>>, "x-treqs-key" :> <<sTreqs>>}
AllHeaders ==
    {MkHeader(k, a, i, x) :
        k \in KeyValues, a \in ActionValues, i \in IdValues, x \in OtherValues}

NoResp == [status |-> 0, id |-> sEmpty, ctype |-> "", body |-> {}]

----------------------------------------------------------------------------
(* sync.RWMutex.  mu.w is the writer that has taken the writers' mutex: it   *)
(* holds the lock once the readers have left, and no reader enters while it *)
(* holds or waits.                                                          *)

\* A variant that admits one reader at a time
RLockAlone == mu.w = None /\ mu.readers = {}

\* RLock returns unless a writer holds the lock or waits for it
RLockFree == mu.w = None
RLock(p) == [mu EXCEPT !.readers = @ \cup {p}]
RUnlock(p) == [mu EXCEPT !.readers = @ \ {p}]
LockFree == mu.w = None
LockBegin(p) == [mu EXCEPT !.w = p]
LockDone(p) == mu.w = p /\ mu.readers = {}
Unlock(p) == [mu EXCEPT !.w = None]

\* runtime/trace writes what runs while a capture is on into the capture's sink;
\* the bytes of a buffer are the set of the events they hold
Record(e) ==
    IF tracing = None THEN buf ELSE [buf EXCEPT ![tracing] = @ \cup {e}]

\* The request of r has ended: its header map is garbage
Drop(f, r, empty) == [f EXCEPT ![r] = empty]

----------------------------------------------------------------------------
(* Initial state: a Tracer literal, &Tracer{Key: ..., Handler: ...} *)

InitWith(k) ==
    /\ tKey = k
    /\ mu = [w |-> None, readers |-> {}]
    /\ traces = [nil |-> TRUE, m |-> << >>]
    /\ tracing = None
    /\ pc = [r \in Reqs |-> "idle"]
    /\ hdr = [r \in Reqs |-> EmptyHeader]
    /\ orig = [r \in Reqs |-> EmptyHeader]
    /\ act = [r \in Reqs |-> sEmpty]
    /\ rid = [r \in Reqs |-> sEmpty]
    /\ tid = [r \in Reqs |-> sEmpty]
    /\ buf = [r \in Reqs |-> {}]
    /\ resp = [r \in Reqs |-> NoResp]
    /\ called = [r \in Reqs |-> FALSE]
    /\ bpc = [b \in Bgs |-> "idle"]
    /\ nextId = 0
    /\ crashed = FALSE
    /\ purged = {}

Init == InitWith(sTreqs)

----------------------------------------------------------------------------
(* Tracer.ServeHTTP *)

\* A variant without the key check
AuthorizeAlways(key, action) == action

\* A variant that never authorizes a request without a key
AuthorizeKeyed(key, action) ==
    IF key = sEmpty \/ key # tKey THEN sEmpty ELSE action

\* if key != t.Key { action = "" }
Authorize(key, action) == IF key # tKey THEN sEmpty ELSE action

\* switch strings.ToLower(action)
Route(a) ==
    CASE a = sRead -> "read_rlock"
      [] a = sReset -> "reset_lock"
      [] a = sTrace -> "trace_lock"
      [] OTHER -> "pass_rlock"

\* The goroutines that serve no request
Free == {"idle", "done", "panicked"}

\* r is the first of the goroutines that serve no request
FirstFree(r) == pc[r] \in Free /\ \A q \in Reqs : pc[q] \in Free => r <= q

\* The trace requests admitted so far
Admitted ==
    nextId + Cardinality({q \in Reqs : pc[q] \in {"trace_lock", "trace_wait", "trace_start"}})

ServeHTTP(r, h, order) ==
    /\ ~crashed
    /\ pc[r] \in Free
    /\ LET s == scrubHeader(h, order)
           a == ToLower(Authorize(s.key, s.action))
       IN /\ Route(a) = "trace_lock" => Admitted < MaxIds
          /\ pc' = [pc EXCEPT ![r] = Route(a)]
          /\ hdr' = [hdr EXCEPT ![r] = s.hdr]
          /\ orig' = [orig EXCEPT ![r] = h]
          /\ act' = [act EXCEPT ![r] = a]
          /\ rid' = [rid EXCEPT ![r] = s.id]
    /\ tid' = [tid EXCEPT ![r] = sEmpty]
    /\ buf' = [buf EXCEPT ![r] = {}]
    /\ resp' = [resp EXCEPT ![r] = NoResp]
    /\ called' = [called EXCEPT ![r] = FALSE]
    /\ UNCHANGED <<tKey, mu, traces, tracing, bpc, nextId, crashed, purged>>

\* default: t.mu.RLock(); t.Handler.ServeHTTP(w, r) is entered
PassRLock(r) ==
    /\ ~crashed
    /\ pc[r] = "pass_rlock"
    /\ RLockFree
    /\ mu' = RLock(r)
    /\ pc' = [pc EXCEPT ![r] = "pass_handler"]
    /\ called' = [called EXCEPT ![r] = TRUE]
    /\ buf' = Record("p")
    /\ UNCHANGED <<tKey, traces, tracing, hdr, orig, act, rid, tid, resp, bpc, nextId,
                   crashed, purged>>

\* the downstream handler writes its response and returns; deferred t.mu.RUnlock()
PassReturn(r) ==
    /\ ~crashed
    /\ pc[r] = "pass_handler"
    /\ resp' = [resp EXCEPT ![r].status = 200, ![r].body = {"h"}]
    /\ buf' = Record("p")
    /\ mu' = RUnlock(r)
    /\ pc' = [pc EXCEPT ![r] = "done"]
    /\ hdr' = Drop(hdr, r, EmptyHeader)
    /\ orig' = Drop(orig, r, EmptyHeader)
    /\ UNCHANGED <<tKey, traces, tracing, act, rid, tid, called, bpc, nextId,
                   crashed, purged>>

----------------------------------------------------------------------------
(* Tracer.read *)

ReadRLock(r) ==
    /\ ~crashed
    /\ pc[r] = "read_rlock"
    /\ RLockFree
    /\ mu' = RLock(r)
    /\ pc' = [pc EXCEPT ![r] = "read_lookup"]
    /\ UNCHANGED <<tKey, traces, tracing, hdr, orig, act, rid, tid, buf, resp, called,
                   bpc, nextId, crashed, purged>>

\* buf, ok := t.traces[id]; a nil map has no entries
Lookup(id) == id \in DOMAIN traces.m

\* A variant without the not-found branch: a missing id is answered with an
\* empty session
ReadLookupNoCheck(r) ==
    /\ ~crashed
    /\ pc[r] = "read_lookup"
    /\ resp' = [resp EXCEPT ![r].status = 200,
                            ![r].ctype = "application/octet-stream",
                            ![r].body = IF Lookup(rid[r]) THEN traces.m[rid[r]] ELSE {}]
    /\ mu' = RUnlock(r)
    /\ pc' = [pc EXCEPT ![r] = "done"]
    /\ hdr' = Drop(hdr, r, EmptyHeader)
    /\ orig' = Drop(orig, r, EmptyHeader)
    /\ UNCHANGED <<tKey, traces, tracing, act, rid, tid, buf, called, bpc,
                   nextId, crashed, purged>>

\* not found, or the bytes of the buffer; deferred t.mu.RUnlock()
ReadLookup(r) ==
    /\ ~crashed
    /\ pc[r] = "read_lookup"
    /\ IF ~Lookup(rid[r])
       THEN resp' = [resp EXCEPT ![r].status = 404]
       ELSE resp' = [resp EXCEPT ![r].status = 200,
                                 ![r].ctype = "application/octet-stream",
                                 ![r].body = traces.m[rid[r]]]
    /\ mu' = RUnlock(r)
    /\ pc' = [pc EXCEPT ![r] = "done"]
    /\ hdr' = Drop(hdr, r, EmptyHeader)
    /\ orig' = Drop(orig, r, EmptyHeader)
    /\ UNCHANGED <<tKey, traces, tracing, act, rid, tid, buf, called, bpc,
                   nextId, crashed, purged>>

----------------------------------------------------------------------------
(* Tracer.reset *)

\* t.mu.Lock() takes the writers' mutex and announces the writer to the readers
ResetLock(r) ==
    /\ ~crashed
    /\ pc[r] = "reset_lock"
    /\ LockFree
    /\ mu' = LockBegin(r)
    /\ pc' = [pc EXCEPT ![r] = "reset_wait"]
    /\ UNCHANGED <<tKey, traces, tracing, hdr, orig, act, rid, tid, buf, resp, called,
                   bpc, nextId, crashed, purged>>

\* A variant that keeps the entries of the old map
MakeTracesKeep == [nil |-> FALSE, m |-> traces.m]

\* t.traces = make(map[string]*bytes.Buffer)
MakeTraces == [nil |-> FALSE, m |-> << >>]

\* t.mu.Lock() returns once the readers have left; the map is replaced;
\* deferred t.mu.Unlock(); the server answers 200
ResetBody(r) ==
    /\ ~crashed
    /\ pc[r] = "reset_wait"
    /\ LockDone(r)
    /\ traces' = MakeTraces
    /\ purged' = purged \cup DOMAIN traces.m
    /\ mu' = Unlock(r)
    /\ resp' = [resp EXCEPT ![r].status = 200]
    /\ pc' = [pc EXCEPT ![r] = "done"]
    /\ hdr' = Drop(hdr, r, EmptyHeader)
    /\ orig' = Drop(orig, r, EmptyHeader)
    /\ UNCHANGED <<tKey, tracing, act, rid, tid, buf, called, bpc, nextId, crashed>>

----------------------------------------------------------------------------
(* Tracer.trace *)

TraceLock(r) ==
    /\ ~crashed
    /\ pc[r] = "trace_lock"
    /\ LockFree
    /\ mu' = LockBegin(r)
    /\ pc' = [pc EXCEPT ![r] = "trace_wait"]
    /\ UNCHANGED <<tKey, traces, tracing, hdr, orig, act, rid, tid, buf, resp, called,
                   bpc, nextId, crashed, purged>>

\* t.mu.Lock() returns once the readers have left, and the next statement is
\* t.mu.Unlock(): the lock is given back before the trace begins
TraceUnlock(r) ==
    /\ ~crashed
    /\ pc[r] = "trace_wait"
    /\ LockDone(r)
    /\ mu' = Unlock(r)
    /\ pc' = [pc EXCEPT ![r] = "trace_start"]
    /\ UNCHANGED <<tKey, traces, tracing, hdr, orig, act, rid, tid, buf, resp, called,
                   bpc, nextId, crashed, purged>>

\* trace.Start fails while a capture is on ("tracing is already enabled")
StartErr == tracing # None

\* A variant that stores the buffer as soon as the capture is on
TraceStartOKEarly(r) ==
    /\ ~crashed
    /\ pc[r] = "trace_start"
    /\ ~StartErr
    /\ tid' = [tid EXCEPT ![r] = randHex(nextId)]
    /\ nextId' = nextId + 1
    /\ resp' = [resp EXCEPT ![r].id = randHex(nextId)]
    /\ tracing' = r
    /\ buf' = [buf EXCEPT ![r] = {"t"}]
    /\ called' = [called EXCEPT ![r] = TRUE]
    /\ pc' = [pc EXCEPT ![r] = "trace_handler"]
    /\ traces' = IF traces.nil THEN traces
                 ELSE [traces EXCEPT !.m = (randHex(nextId) :> {"t"}) @@ @]
    /\ UNCHANGED <<tKey, mu, hdr, orig, act, rid, bpc, crashed, purged>>

\* id, buf := randHex(), bytes.NewBuffer(nil); the id header is set;
\* trace.Start(buf) succeeds; t.Handler.ServeHTTP(w, r) is entered
TraceStartOK(r) ==
    /\ ~crashed
    /\ pc[r] = "trace_start"
    /\ ~StartErr
    /\ tid' = [tid EXCEPT ![r] = randHex(nextId)]
    /\ nextId' = nextId + 1
    /\ resp' = [resp EXCEPT ![r].id = randHex(nextId)]
    /\ tracing' = r
    /\ buf' = [buf EXCEPT ![r] = {"t"}]
    /\ called' = [called EXCEPT ![r] = TRUE]
    /\ pc' = [pc EXCEPT ![r] = "trace_handler"]
    /\ UNCHANGED <<tKey, mu, traces, hdr, orig, act, rid, bpc, crashed, purged>>

\* A variant without the return: trace() goes on to the handler call
StartErrFallThrough == "trace_handler"

\* the statement after the error response of trace(): return
StartErrReturn == "done"

\* trace.Start(buf) fails: a capture of this Tracer is on, or one that other
\* code of the process has started (ext)
TraceStartErr(r, ext) ==
    /\ ~crashed
    /\ pc[r] = "trace_start"
    /\ StartErr \/ ext
    /\ tid' = [tid EXCEPT ![r] = randHex(nextId)]
    /\ nextId' = nextId + 1
    /\ resp' = [resp EXCEPT ![r].id = randHex(nextId),
                            ![r].ctype = "text/plain; charset=utf-8",
                            ![r].status = 500,
                            ![r].body = {"Could not enable tracing"}]
    /\ pc' = [pc EXCEPT ![r] = StartErrReturn]
    /\ hdr' = Drop(hdr, r, EmptyHeader)
    /\ orig' = Drop(orig, r, EmptyHeader)
    /\ UNCHANGED <<tKey, mu, traces, tracing, act, rid, buf, called, bpc, crashed, purged>>

\* the downstream handler writes its response (unless one is written) and
\* returns; trace.Stop()
TraceReturn(r) ==
    /\ ~crashed
    /\ pc[r] = "trace_handler"
    /\ resp' = IF resp[r].status = 0
               THEN [resp EXCEPT ![r].status = 200, ![r].body = {"h"}]
               ELSE resp
    /\ tracing' = None
    /\ pc' = [pc EXCEPT ![r] = "trace_store"]
    /\ UNCHANGED <<tKey, mu, traces, hdr, orig, act, rid, tid, buf, called, bpc,
                   nextId, crashed, purged>>

\* A variant whose store drops the sessions stored before
TraceStoreClobber(r) ==
    /\ ~crashed
    /\ pc[r] = "trace_store"
    /\ IF traces.nil
       THEN /\ pc' = [pc EXCEPT ![r] = "panicked"]
            /\ UNCHANGED traces
       ELSE /\ pc' = [pc EXCEPT ![r] = "done"]
            /\ traces' = [traces EXCEPT !.m = (tid[r] :> buf[r])]
    /\ hdr' = Drop(hdr, r, EmptyHeader)
    /\ orig' = Drop(orig, r, EmptyHeader)
    /\ UNCHANGED <<tKey, mu, tracing, act, rid, tid, buf, resp, called, bpc,
                   nextId, crashed, purged>>

\* t.traces[id] = buf: an assignment to an entry of a nil map panics, and
\* net/http recovers the panic and drops the connection
TraceStore(r) ==
    /\ ~crashed
    /\ pc[r] = "trace_store"
    /\ IF traces.nil
       THEN /\ pc' = [pc EXCEPT ![r] = "panicked"]
            /\ UNCHANGED traces
       ELSE /\ pc' = [pc EXCEPT ![r] = "done"]
            /\ traces' = [traces EXCEPT !.m = (tid[r] :> buf[r]) @@ @]
    /\ hdr' = Drop(hdr, r, EmptyHeader)
    /\ orig' = Drop(orig, r, EmptyHeader)
    /\ UNCHANGED <<tKey, mu, tracing, act, rid, tid, buf, resp, called, bpc,
                   nextId, crashed, purged>>

\* The map accesses that run without an ordering against the store of r:
\* the lookup of a read (under the shared lock), the store of another trace
MapRace(r) ==
    \E q \in Reqs \ {r} : pc[q] \in {"read_lookup", "trace_store"}

\* t.traces[id] = buf while another goroutine is in the map: the runtime may
\* throw "concurrent map read and map write" or "concurrent map writes",
\* which ends the process
TraceStoreFatal(r) ==
    /\ ~crashed
    /\ pc[r] = "trace_store"
    /\ ~traces.nil
    /\ MapRace(r)
    /\ crashed' = TRUE
    /\ UNCHANGED <<tKey, mu, traces, tracing, pc, hdr, orig, act, rid, tid, buf, resp,
                   called, bpc, nextId, purged>>

----------------------------------------------------------------------------
(* Tracer.Exclude, called in a loop by a goroutine outside the server *)

ExcludeCall(b) ==
    /\ ~crashed
    /\ bpc[b] = "idle"
    /\ bpc' = [bpc EXCEPT ![b] = "rlock"]
    /\ UNCHANGED <<tKey, mu, traces, tracing, pc, hdr, orig, act, rid, tid, buf, resp,
                   called, nextId, crashed, purged>>

\* t.mu.RLock(); fn() is entered
ExcludeRLock(b) ==
    /\ ~crashed
    /\ bpc[b] = "rlock"
    /\ RLockFree
    /\ mu' = RLock(b)
    /\ buf' = Record("x")
    /\ bpc' = [bpc EXCEPT ![b] = "fn"]
    /\ UNCHANGED <<tKey, traces, tracing, pc, hdr, orig, act, rid, tid, resp, called,
                   nextId, crashed, purged>>

\* fn() returns; deferred t.mu.RUnlock()
ExcludeReturn(b) ==
    /\ ~crashed
    /\ bpc[b] = "fn"
    /\ mu' = RUnlock(b)
    /\ buf' = Record("x")
    /\ bpc' = [bpc EXCEPT ![b] = "idle"]
    /\ UNCHANGED <<tKey, traces, tracing, pc, hdr, orig, act, rid, tid, resp, called,
                   nextId, crashed, purged>>

----------------------------------------------------------------------------
(* The server with concurrent clients.  The goroutines are interchangeable:  *)
(* a new request goes to the first that serves none.                        *)

Next ==
    \/ \E r \in Reqs : \E h \in ConcHeaders : \E order \in Orders(DOMAIN h) :
           FirstFree(r) /\ ServeHTTP(r, h, order)
    \/ \E r \in Reqs : PassRLock(r)
    \/ \E r \in Reqs : PassReturn(r)
    \/ \E r \in Reqs : ReadRLock(r)
    \/ \E r \in Reqs : ReadLookup(r)
    \/ \E r \in Reqs : ResetLock(r)
    \/ \E r \in Reqs : ResetBody(r)
    \/ \E r \in Reqs : TraceLock(r)
    \/ \E r \in Reqs : TraceUnlock(r)
    \/ \E r \in Reqs : TraceStartOK(r)
    \/ \E r \in Reqs : \E ext \in BOOLEAN : TraceStartErr(r, ext)
    \/ \E r \in Reqs : TraceReturn(r)
    \/ \E r \in Reqs : TraceStore(r)
    \/ \E r \in Reqs : TraceStoreFatal(r)
    \/ \E b \in Bgs : ExcludeCall(b)
    \/ \E b \in Bgs : ExcludeRLock(b)
    \/ \E b \in Bgs : ExcludeReturn(b)

Spec == Init /\ [][Next]_vars

----------------------------------------------------------------------------
(* The same server under the scheduling the code relies on: a goroutine that *)
(* can run does run, the downstream handler and the function given to        *)
(* Exclude return, and sync.RWMutex lets no waiter starve (a waiting writer  *)
(* stops new readers, an unlocking writer lets the blocked readers in).      *)
(* Clients need not send requests and the runtime need not detect a race.    *)

\* The steps of the request of r that wait for no other goroutine's choice
Run(r) ==
    \/ PassReturn(r)
    \/ ReadLookup(r)
    \/ ResetBody(r)
    \/ TraceUnlock(r)
    \/ TraceStartOK(r)
    \/ \E ext \in BOOLEAN : TraceStartErr(r, ext)
    \/ TraceReturn(r)
    \/ TraceStore(r)

\* The steps in which the request of r enters RLock or Lock
Acquire(r) == PassRLock(r) \/ ReadRLock(r) \/ ResetLock(r) \/ TraceLock(r)

Fairness ==
    /\ \A r \in Reqs : WF_vars(Run(r)) /\ SF_vars(Acquire(r))
    /\ \A b \in Bgs : WF_vars(ExcludeReturn(b)) /\ SF_vars(ExcludeRLock(b))

SpecFair == Init /\ [][Next]_vars /\ Fairness

----------------------------------------------------------------------------
(* The server with a single client that sends one request at a time, with   *)
(* any headers, to a Tracer whose Key is "treqs" or the zero value          *)

InitHdr == \E k \in {sTreqs, sEmpty} : InitWith(k)

\* No request is in flight
Quiet == \A q \in Reqs : pc[q] \in Free

NextHdr ==
    \/ \E r \in Reqs : \E h \in AllHeaders : \E order \in Orders(DOMAIN h) :
           Quiet /\ FirstFree(r) /\ ServeHTTP(r, h, order)
    \/ \E r \in Reqs : PassRLock(r)
    \/ \E r \in Reqs : PassReturn(r)
    \/ \E r \in Reqs : ReadRLock(r)
    \/ \E r \in Reqs : ReadLookup(r)
    \/ \E r \in Reqs : ResetLock(r)
    \/ \E r \in Reqs : ResetBody(r)
    \/ \E r \in Reqs : TraceLock(r)
    \/ \E r \in Reqs : TraceUnlock(r)
    \/ \E r \in Reqs : TraceStartOK(r)
    \/ \E r \in Reqs : \E ext \in BOOLEAN : TraceStartErr(r, ext)
    \/ \E r \in Reqs : TraceReturn(r)
    \/ \E r \in Reqs : TraceStore(r)

SpecHdr == InitHdr /\ [][NextHdr]_vars

----------------------------------------------------------------------------
(* The server with a single client that sends one request at a time, as the *)
(* example of the package does (a trace, then a read of its id).  Any       *)
(* goroutine serves a request, so that the responses of earlier requests    *)
(* stay in the state.                                                       *)

NextSeq ==
    \/ \E r \in Reqs : \E h \in ConcHeaders : \E order \in Orders(DOMAIN h) :
           Quiet /\ ServeHTTP(r, h, order)
    \/ \E r \in Reqs : PassRLock(r)
    \/ \E r \in Reqs : PassReturn(r)
    \/ \E r \in Reqs : ReadRLock(r)
    \/ \E r \in Reqs : ReadLookup(r)
    \/ \E r \in Reqs : ResetLock(r)
    \/ \E r \in Reqs : ResetBody(r)
    \/ \E r \in Reqs : TraceLock(r)
    \/ \E r \in Reqs : TraceUnlock(r)
    \/ \E r \in Reqs : TraceStartOK(r)
    \/ \E r \in Reqs : \E ext \in BOOLEAN : TraceStartErr(r, ext)
    \/ \E r \in Reqs : TraceReturn(r)
    \/ \E r \in Reqs : TraceStore(r)

SpecSeq == Init /\ [][NextSeq]_vars

----------------------------------------------------------------------------
(* Properties *)

Control == {xTReqsKey, xTReqsAction, xTReqsID}
InFlight(r) == pc[r] \notin Free
InHandler(r) == pc[r] \in {"pass_handler", "trace_handler"}
\* trace() is between trace.Start and trace.Stop
Capturing(r) == pc[r] = "trace_handler" /\ tracing = r
\* trace() has drawn its id and has not yet stored its buffer
InTraceSection(r) == pc[r] \in {"trace_handler", "trace_store"}

\* C1: while a trace request is between starting and stopping its capture, no
\* pass-through request is inside its downstream handler call.
C1_PassExcludedFromCapture ==
    \A r, t \in Reqs : Capturing(t) => pc[r] # "pass_handler"

\* C2: at most one trace request at a time is inside its trace section (from
\* drawing its id to storing its buffer).
C2_OneTraceSection ==
    \A r, t \in Reqs : InTraceSection(r) /\ InTraceSection(t) => r = t

\* C3: a function run through Exclude holds the shared lock while it runs and
\* never runs while the capture of a trace request is on.
C3_ExcludeOutsideCapture ==
    \A b \in Bgs : bpc[b] = "fn" =>
        /\ b \in mu.readers
        /\ \A t \in Reqs : ~Capturing(t)

\* C4: on a Tracer that no reset has touched, once a trace request has ended
\* with a 200 response that carries the id X, a read of X answers 200 with
\* the bytes captured by that trace.
C4_ReadAfterTrace ==
    [][\A r, t \in Reqs :
          ( /\ traces.nil
            /\ pc[t] \in {"done", "panicked"} /\ act[t] = sTrace
            /\ resp[t].status = 200 /\ resp[t].id # sEmpty
            /\ pc[r] = "read_lookup" /\ pc'[r] = "done"
            /\ rid[r] = resp[t].id )
          => (resp'[r].status = 200 /\ resp'[r].body = buf[t])]_vars

\* C5: a request whose key (the first value of its key header, "" without
\* one) differs from Tracer.Key is served as pass-through, whatever its
\* action header holds.
C5_WrongKeyPassesThrough ==
    \A r \in Reqs :
        InFlight(r) /\ Get(orig[r], xTReqsKey) # tKey
            => pc[r] \in {"pass_rlock", "pass_handler"}

C5_Witness ==
    \E r \in Reqs :
        /\ pc[r] = "pass_handler"
        /\ Get(orig[r], xTReqsKey) # tKey
        /\ ToLower(Get(orig[r], xTReqsAction)) \in {sTrace, sRead, sReset}

\* C6: the header map the downstream handler sees holds none of the three
\* control headers.
C6_ControlHeadersScrubbed ==
    \A r \in Reqs :
        InHandler(r) => \A n \in DOMAIN hdr[r] : CanonicalHeaderKey(n) \notin Control

C6_Witness ==
    \E r \in Reqs : InHandler(r) /\ Control \subseteq DOMAIN orig[r]

\* C7: every header of a pass-through request other than the three control
\* headers reaches the downstream handler with its name and values.
C7_OtherHeadersKept ==
    \A r \in Reqs :
        pc[r] = "pass_handler" =>
            \A n \in DOMAIN orig[r] :
                CanonicalHeaderKey(n) \notin Control
                    => n \in DOMAIN hdr[r] /\ hdr[r][n] = orig[r][n]

\* C8: a read of an id that a completed reset has discarded answers 404.
C8_ResetForgets ==
    [][\A r \in Reqs :
          (pc[r] = "read_lookup" /\ pc'[r] = "done" /\ rid[r] \in purged)
          => resp'[r].status = 404]_vars

C8_Witness ==
    \E r \in Reqs :
        /\ pc[r] = "done" /\ act[r] = sRead
        /\ rid[r] \in purged /\ resp[r].status = 404

\* C9: the id header of a response is set only by a trace that succeeded: a
\* response that carries it is the 200 response of a trace request.
C9_IdOnlyOnSuccess ==
    \A r \in Reqs :
        pc[r] = "done" /\ resp[r].id # sEmpty
            => act[r] = sTrace /\ resp[r].status = 200

\* C10: a trace request whose capture fails to start ends with a 500
\* response, without a call of the downstream handler, and no step of a trace
\* request before its capture starts changes the registry.
C10_StartFailure ==
    [][\A r \in Reqs :
          /\ (pc[r] = "trace_start" /\ pc'[r] # "trace_start" /\ tracing' # r)
                => (pc'[r] = "done" /\ resp'[r].status = 500 /\ ~called'[r])
          /\ (pc[r] \in {"trace_lock", "trace_wait", "trace_start"} /\ pc'[r] # pc[r]
                /\ tracing' # r)
                => traces' = traces]_vars

C10_Witness ==
    \E r \in Reqs :
        /\ pc[r] = "done" /\ act[r] = sTrace
        /\ resp[r].status = 500 /\ ~called[r]
        /\ DOMAIN traces.m # {}

----------------------------------------------------------------------------
\* The step that ends the read of r
ReadEnds(r) == pc[r] = "read_lookup" /\ pc'[r] = "done"

\* C11: a read whose id is not a key of the registry (the empty id and a read
\* of a Tracer that has no map included) is answered 404 and gets no bytes of
\* a session, and the registry is as it was
C11_ReadUnknownNotFound ==
    [][\A r \in Reqs :
          (ReadEnds(r) /\ rid[r] \notin DOMAIN traces.m) =>
              /\ resp'[r].status = 404
              /\ resp'[r].body = {}
              /\ resp'[r].ctype # "application/octet-stream"
              /\ traces' = traces]_vars

\* A read without an id was answered 404 by a Tracer that has no map yet
C11_Witness ==
    \E r \in Reqs :
        /\ pc[r] = "done" /\ act[r] = sRead /\ rid[r] = sEmpty
        /\ traces.nil /\ resp[r].status = 404 /\ resp[r].body = {}

----------------------------------------------------------------------------
\* C12: the holders of the shared lock do not exclude each other: while no
\* trace and no reset holds the lock or waits for it, a pass-through request,
\* a read and a call of Exclude each get the shared lock at once, whoever
\* holds it already
C12_SharedNotExclusive ==
    (~crashed /\ mu.w = None) =>
        /\ \A r \in Reqs : pc[r] = "pass_rlock" => ENABLED PassRLock(r)
        /\ \A r \in Reqs : pc[r] = "read_rlock" => ENABLED ReadRLock(r)
        /\ \A b \in Bgs : bpc[b] = "rlock" => ENABLED ExcludeRLock(b)

\* Two pass-through requests and a call of Exclude are in their sections at
\* the same time
C12_Witness ==
    /\ mu.w = None
    /\ \E r, q \in Reqs :
           r # q /\ pc[r] = "pass_handler" /\ pc[q] = "pass_handler"
    /\ \E b \in Bgs : bpc[b] = "fn"
    /\ mu.readers = Reqs \cup Bgs

\* A pass-through request and a read are in their sections at the same time
C12_PassWithRead ==
    /\ mu.w = None
    /\ \E r, q \in Reqs : pc[r] = "pass_handler" /\ pc[q] = "read_lookup"
    /\ {r \in Reqs : pc[r] \in {"pass_handler", "read_lookup"}} \subseteq mu.readers

----------------------------------------------------------------------------
\* Every lookup in the registry is made by a holder of the shared lock
LookupUnderRLock ==
    [][\A r \in Reqs : ReadEnds(r) => r \in mu.readers]_vars

\* C13: the registry is changed only by a request that holds the exclusive
\* lock, and looked up only by a request that holds the shared lock
C13_RegistryUnderLock ==
    [][/\ traces' # traces => \E r \in Reqs : LockDone(r) /\ pc'[r] # pc[r]
       /\ \A r \in Reqs : ReadEnds(r) => r \in mu.readers]_vars

\* The step in which the reset of r replaces the map
ResetReplaces(r) == pc[r] = "reset_wait" /\ pc'[r] = "done"

\* C14: a reset never replaces the registry while a trace is between the
\* start of its capture and the store of its buffer
C14_TraceResetSerialize ==
    [][\A r \in Reqs :
          ResetReplaces(r) => \A t \in Reqs : ~InTraceSection(t)]_vars

----------------------------------------------------------------------------
\* The step in which the trace of r stores its session
TraceStores(r) == pc[r] = "trace_store" /\ pc'[r] = "done"

\* C15: the sessions of the registry change in two ways only: a trace whose
\* capture ran adds one session, the buffer of its capture under the new id
\* it has announced, and keeps the others; a reset leaves none.  Every other
\* step (of a pass-through request, a read, a call of Exclude) leaves each id
\* with its bytes.
C15_RegistryFrame ==
    [][/\ \/ traces'.m = traces.m
          \/ \E r \in Reqs :
                /\ TraceStores(r)
                /\ called[r] /\ resp[r].id = tid[r]
                /\ tid[r] \notin DOMAIN traces.m
                /\ DOMAIN traces'.m = DOMAIN traces.m \cup {tid[r]}
                /\ traces'.m[tid[r]] = buf[r]
                /\ \A id \in DOMAIN traces.m : traces'.m[id] = traces.m[id]
          \/ \E r \in Reqs : ResetReplaces(r)
       /\ \A r \in Reqs : ResetReplaces(r) => DOMAIN traces'.m = {}]_vars

\* Two sessions are stored, and a read has been served one of them
C15_Witness ==
    /\ Cardinality(DOMAIN traces.m) = 2
    /\ \E r \in Reqs :
           /\ pc[r] = "done" /\ act[r] = sRead /\ resp[r].status = 200
           /\ rid[r] \in DOMAIN traces.m /\ resp[r].body = traces.m[rid[r]]

----------------------------------------------------------------------------
\* a equals the lower-case word w in some letter case
EqualFold(a, w) ==
    /\ Len(a) = Len(w)
    /\ \A i \in 1..Len(w) :
           a[i] = w[i] \/ (a[i] \in DOMAIN UpperToLower /\ UpperToLower[a[i]] = w[i])

\* The action the request of r is served as ("" is pass-through)
Served(r) ==
    CASE pc[r] \in {"trace_lock", "trace_wait", "trace_start", "trace_handler",
                    "trace_store"} -> sTrace
      [] pc[r] \in {"read_rlock", "read_lookup"} -> sRead
      [] pc[r] \in {"reset_lock", "reset_wait"} -> sReset
      [] pc[r] \in {"pass_rlock", "pass_handler"} -> sEmpty

\* C16: a request with the right key is served as trace, read or reset
\* exactly when its action header is that word in some letter case, and as
\* pass-through for every other value (none, "tracee")
C16_ActionCaseInsensitive ==
    \A r \in Reqs :
        InFlight(r) /\ Get(orig[r], xTReqsKey) = tKey =>
            LET a == Get(orig[r], xTReqsAction)
            IN /\ \A w \in {sTrace, sRead, sReset} : Served(r) = w <=> EqualFold(a, w)
               /\ Served(r) = sEmpty <=> \A w \in {sTrace, sRead, sReset} : ~EqualFold(a, w)

\* A request with the right key and the action "TrAcE" is being traced
C16_Witness ==
    \E r \in Reqs :
        /\ pc[r] = "trace_handler"
        /\ Get(orig[r], xTReqsKey) = tKey
        /\ Get(orig[r], xTReqsAction) = sTraceMixed

\* A request with the right key and the action "tracee" is passed through
C16_NearMiss ==
    \E r \in Reqs :
        /\ pc[r] = "pass_handler"
        /\ Get(orig[r], xTReqsKey) = tKey
        /\ Get(orig[r], xTReqsAction) = sTracee

----------------------------------------------------------------------------
\* C17: the registry holds no buffer of a capture that is on, nor of a trace
\* that has not yet reached its store: a session is stored after the handler
\* call of its trace has returned and trace.Stop has run, so what a read
\* finds in the registry is the buffer of a capture that has stopped
C17_StoredAfterStop ==
    /\ \A t \in Reqs : InTraceSection(t) => tid[t] \notin DOMAIN traces.m
    /\ \A t \in Reqs :
           (pc[t] = "done" /\ tid[t] \in DOMAIN traces.m) =>
               (tracing # t /\ called[t] /\ resp[t].status # 0)

\* A read is about to be served a stored session while the capture of
\* another trace is on
C17_Witness ==
    \E t, r \in Reqs :
        /\ Capturing(t)
        /\ pc[r] = "read_lookup" /\ rid[r] \in DOMAIN traces.m

----------------------------------------------------------------------------
\* Some goroutine that is inside a request or inside Exclude can take a step
CanStep ==
    \/ \E r \in Reqs : ENABLED (Run(r) \/ Acquire(r))
    \/ \E b \in Bgs : ENABLED (ExcludeRLock(b) \/ ExcludeReturn(b))

\* A request is in flight or a call of Exclude is under way
Busy == (\E r \in Reqs : InFlight(r)) \/ (\E b \in Bgs : bpc[b] # "idle")

\* No goroutine holds the lock or has announced itself as a writer
LockIdle == mu.w = None /\ mu.readers = {}

\* Every request that was accepted ends, unless the runtime ends the process
C18_EndsUnlessFatal ==
    \A r \in Reqs : InFlight(r) ~> (pc[r] \in Free \/ crashed)

\* C18: every lock taken is given back, so that the server is never stuck
\* with work under way, and every request that was accepted (one that waits
\* for its lock tier included) gets its lock and ends
C18_NoDeadlockAndProgress ==
    /\ [](Busy => CanStep)
    /\ [](~Busy => LockIdle)
    /\ \A r \in Reqs : InFlight(r) ~> pc[r] \in Free

----------------------------------------------------------------------------
\* The request of r carries no key header, in any spelling of the name
NoKeyHeader(r) ==
    \A n \in DOMAIN orig[r] : CanonicalHeaderKey(n) # xTReqsKey

\* The action header of r names one of the three actions
Recognized(r) ==
    \E w \in {sTrace, sRead, sReset} : EqualFold(Get(orig[r], xTReqsAction), w)

\* C19: a request without a key header has its action honoured exactly when
\* Tracer.Key is the empty string; under any other Key it is passed through
C19_NoKeyAuthorizedIffEmptyKey ==
    \A r \in Reqs :
        InFlight(r) /\ NoKeyHeader(r) =>
            /\ Recognized(r) => (Served(r) # sEmpty <=> tKey = sEmpty)
            /\ tKey # sEmpty => Served(r) = sEmpty

\* A Tracer with the zero Key is tracing a request that carries no key
C19_Witness ==
    \E r \in Reqs :
        /\ tKey = sEmpty /\ NoKeyHeader(r)
        /\ pc[r] = "trace_handler" /\ tracing = r

\* A Tracer with the Key "treqs" passes a trace request without a key through
C19_KeyedPass ==
    \E r \in Reqs :
        /\ tKey = sTreqs /\ NoKeyHeader(r) /\ Recognized(r)
        /\ pc[r] = "pass_handler"
====
